---- MODULE Spec2Model ----
(***************************************************************************)
(* Model of the Groth16 Spend and Output circuits of the penumbra crypto   *)
(* crate (crypto/src/proofs/groth16/spend.rs and output.rs): constraint    *)
(* synthesis, test parameter setup, prove and verify.                      *)
(*                                                                         *)
(* Abstractions.  The base field Fq is Z_FqOrder and the decaf377 group is *)
(* the additive group Z_GroupOrder (an element is its discrete logarithm   *)
(* to the basepoint).  The hash-like relations of the gadget library and   *)
(* of the commitment tree are fixed arithmetic functions.  Groth16 is the  *)
(* ideal proof system: a proof verifies exactly when it was made with the  *)
(* matching key from a satisfied constraint system of the key's shape and  *)
(* the verifier supplies the instance the prover allocated.                *)
(***************************************************************************)
EXTENDS Integers, Sequences, FiniteSets, TLC

(* ------------------------------ bounds --------------------------------- *)
FqOrder == 7
GroupOrder == 3
MaxAmount == 1
MaxTau == 2
MaxSetups == 4

(* --------------------------- field and group --------------------------- *)
Fq == 0 .. (FqOrder - 1)
Element == 0 .. (GroupOrder - 1)
Fr == 0 .. (GroupOrder - 1)
Kinds == {"spend", "output"}

\* decaf377::basepoint()
Basepoint == 1

\* the group law and scalar multiplication
Add(a, b) == (a + b) % GroupOrder
Mul(k, a) == (k * a) % GroupOrder
IsIdentity(e) == e = Mul(0, Basepoint)

\* Element -> 32 byte encoding (the Fq value s of the decaf377 encoding);
\* the identity encodes as zero
Compress(e) == 2 * e

\* decaf377::Encoding(bytes).vartime_decompress(): fails on bytes that are no
\* canonical encoding of a group element
Decompress(b) ==
    IF b % 2 = 0 /\ (b \div 2) \in Element
    THEN [ok |-> TRUE, point |-> b \div 2]
    ELSE [ok |-> FALSE, point |-> Basepoint]

\* Fq::from_bytes(bytes): fails on a non-canonical field encoding
FqFromBytes(b) ==
    IF b \in Fq THEN [ok |-> TRUE, value |-> b] ELSE [ok |-> FALSE, value |-> 0]

\* Fq::from(amount)
FqFromAmount(n) == n % FqOrder

\* amount.to_le_bytes() and Fr::to_bytes(): little-endian digits
ToLeBytes(n) == <<n % 2, (n \div 2) % 2, n \div 4>>
FromLeBytes(bs) == bs[1] + 2 * bs[2] + 4 * bs[3]

\* ToConstraintField: an Fq is itself, an Element is its affine coordinates
FqToFieldElements(v) == <<v>>
ElementToFieldElements(e) == <<Compress(e), (e * e + 1) % FqOrder>>

(* ------------------- relations of the gadget library ------------------- *)
NoteCommit(nb, amount, asset, gd, pks, ck) ==
    (nb + 2 * amount + 3 * asset + Compress(gd) + pks + ck) % FqOrder
MerkleRoot(path, position, cm) == (path + 2 * position + 3 * cm + 1) % FqOrder
Rerandomize(ak, randomizer) == Add(ak, Mul(randomizer, Basepoint))
IncomingViewingKey(aks, nk) == (aks + nk) % GroupOrder
TransmissionKey(aks, nk, gd) == Mul(IncomingViewingKey(aks, nk), gd)
ValueCommit(amount, asset, vb) == Add(Mul(amount, asset), Mul(vb, Add(Basepoint, Basepoint)))
NullifierOf(cm, nk, position) == (cm + 2 * nk + 3 * position + 2) % FqOrder

(* -------------------- gadget relations, by gadget name ------------------ *)
\* what each gadget enforces on the values of the variables it is handed, in
\* the order of the call's arguments
Relation(gadget, a) ==
    CASE gadget = "note_commitment_integrity" ->
            a[7] = NoteCommit(a[1], a[2], a[3], a[4], a[5], a[6])
      [] gadget = "merkle_path_verify" ->
            a[3] = MerkleRoot(a[1], a[2], a[4])
      [] gadget = "rk_integrity" ->
            a[3] = Compress(Rerandomize(a[1], FromLeBytes(a[2])))
      [] gadget = "diversified_address_integrity" ->
            a[3] = TransmissionKey(a[1], a[2], a[4])
      [] gadget = "diversified_basepoint_not_identity" ->
            ~IsIdentity(a[1])
      [] gadget = "ak_not_identity" ->
            ~IsIdentity(a[1])
      [] gadget = "value_commitment_integrity" ->
            a[4] = ValueCommit(FromLeBytes(a[1]), a[2], FromLeBytes(a[3]))
      [] gadget = "nullifier_integrity" ->
            a[4] = NullifierOf(a[1], a[2], a[3])

\* the field elements one allocated variable contributes
FieldElements(type, v) ==
    IF type = "element" THEN ElementToFieldElements(v)
    ELSE IF type = "fq" THEN FqToFieldElements(v)
    ELSE v

RECURSIVE Flatten(_)
Flatten(ss) == IF ss = <<>> THEN <<>> ELSE Head(ss) \o Flatten(Tail(ss))

IsInput(alloc) == alloc.mode = "input"

\* the instance of a constraint system: the values of its public input
\* variables, in allocation order
Instance(allocs, assignment) ==
    LET inputs == SelectSeq(allocs, IsInput)
    IN Flatten([i \in 1 .. Len(inputs) |->
                    FieldElements(inputs[i].type, assignment[inputs[i].name])])

\* a gadget call constrains  selector => relation
Enforced(call, assignment) ==
    IF call.selector = "Boolean::TRUE" THEN TRUE ELSE assignment[call.selector]
Holds(call, assignment) ==
    Relation(call.gadget, [i \in 1 .. Len(call.args) |-> assignment[call.args[i]]])
IsSatisfied(calls, assignment) ==
    \A i \in 1 .. Len(calls) :
        Enforced(calls[i], assignment) => Holds(calls[i], assignment)

(* ----------------------------- SpendCircuit ---------------------------- *)
\* the transmission key of the note as a group element (spend.rs 80-82)
DecodeTransmissionKeyUnchecked(c) ==
    [ok |-> TRUE, point |-> Decompress(c.note.transmission_key).point]
DecodeTransmissionKey(c) == Decompress(c.note.transmission_key)

\* is_dummy.not() (spend.rs 118)
IsNotDummyForgotNot(is_dummy) == is_dummy
IsNotDummy(is_dummy) == ~is_dummy

\* the variables generate_constraints allocates, in order
SpendAllocs ==
    << [name |-> "note_commitment", mode |-> "witness", type |-> "fq"],
       [name |-> "position", mode |-> "witness", type |-> "fq"],
       [name |-> "merkle_path", mode |-> "witness", type |-> "fq"],
       [name |-> "note_blinding", mode |-> "witness", type |-> "fq"],
       [name |-> "value_amount", mode |-> "witness", type |-> "fq"],
       [name |-> "value_asset_id", mode |-> "witness", type |-> "fq"],
       [name |-> "diversified_generator", mode |-> "witness", type |-> "element"],
       [name |-> "transmission_key_s", mode |-> "witness", type |-> "fq"],
       [name |-> "transmission_key", mode |-> "witness", type |-> "element"],
       [name |-> "clue_key", mode |-> "witness", type |-> "fq"],
       [name |-> "v_blinding", mode |-> "witness", type |-> "bytes"],
       [name |-> "value", mode |-> "witness", type |-> "bytes"],
       [name |-> "spend_auth_randomizer", mode |-> "witness", type |-> "bytes"],
       [name |-> "ak", mode |-> "witness", type |-> "fq"],
       [name |-> "ak_element", mode |-> "witness", type |-> "element"],
       [name |-> "nk", mode |-> "witness", type |-> "fq"],
       [name |-> "anchor", mode |-> "input", type |-> "fq"],
       [name |-> "balance_commitment", mode |-> "input", type |-> "element"],
       [name |-> "nullifier", mode |-> "input", type |-> "fq"],
       [name |-> "rk", mode |-> "input", type |-> "element"],
       [name |-> "rk_fq", mode |-> "witness", type |-> "fq"],
       [name |-> "is_dummy", mode |-> "witness", type |-> "bool"],
       [name |-> "is_not_dummy", mode |-> "witness", type |-> "bool"] >>

\* the value each variable is allocated with
SpendAssignment(c) ==
    LET amount_fq == FqFromAmount(c.note.amount)
        is_dummy == (amount_fq = 0)
    IN [ note_commitment |-> c.note_commitment_proof.commitment,
         position |-> c.note_commitment_proof.position % FqOrder,
         merkle_path |-> c.note_commitment_proof.auth_path,
         note_blinding |-> c.note.note_blinding,
         value_amount |-> amount_fq,
         value_asset_id |-> c.note.asset_id,
         diversified_generator |-> c.note.diversified_generator,
         transmission_key_s |-> FqFromBytes(c.note.transmission_key).value,
         transmission_key |-> DecodeTransmissionKey(c).point,
         clue_key |-> c.note.clue_key % FqOrder,
         v_blinding |-> ToLeBytes(c.v_blinding),
         value |-> ToLeBytes(c.note.amount),
         spend_auth_randomizer |-> ToLeBytes(c.spend_auth_randomizer),
         ak |-> FqFromBytes(c.ak).value,
         ak_element |-> Decompress(c.ak).point,
         nk |-> c.nk,
         anchor |-> c.anchor,
         balance_commitment |-> c.balance_commitment,
         nullifier |-> c.nullifier,
         rk |-> c.rk,
         rk_fq |-> Compress(c.rk),
         is_dummy |-> is_dummy,
         is_not_dummy |-> IsNotDummy(is_dummy) ]

\* the gadget invocations of generate_constraints, in order (spend.rs 120-174)
SpendGadgetCallsList ==
    << [gadget |-> "note_commitment_integrity", selector |-> "is_not_dummy",
        args |-> <<"note_blinding", "value_amount", "value_asset_id",
                   "diversified_generator", "transmission_key_s", "clue_key",
                   "note_commitment">>],
       [gadget |-> "merkle_path_verify", selector |-> "is_not_dummy",
        args |-> <<"merkle_path", "position", "anchor", "note_commitment">>],
       [gadget |-> "rk_integrity", selector |-> "is_not_dummy",
        args |-> <<"ak_element", "spend_auth_randomizer", "rk_fq">>],
       [gadget |-> "diversified_address_integrity", selector |-> "is_not_dummy",
        args |-> <<"ak", "nk", "transmission_key", "diversified_generator">>],
       [gadget |-> "diversified_basepoint_not_identity", selector |-> "is_not_dummy",
        args |-> <<"diversified_generator">>],
       [gadget |-> "ak_not_identity", selector |-> "is_not_dummy",
        args |-> <<"ak_element">>],
       [gadget |-> "value_commitment_integrity", selector |-> "is_not_dummy",
        args |-> <<"value", "value_asset_id", "v_blinding", "balance_commitment">>],
       [gadget |-> "nullifier_integrity", selector |-> "is_not_dummy",
        args |-> <<"note_commitment", "nk", "position", "nullifier">>] >>

IsValueCommitmentCall(call) == call.gadget = "value_commitment_integrity"
IsNotNullifierCall(call) == call.gadget # "nullifier_integrity"

\* faulty variants of the invocation list: gadgets emitted only for a genuine
\* spend; the value commitment enforced unconditionally; the last gadget left out
SpendGadgetCallsBranching(c) ==
    IF c.note.amount = 0 THEN <<>> ELSE SpendGadgetCallsList
SpendGadgetCallsValueUngated(c) ==
    [i \in 1 .. Len(SpendGadgetCallsList) |->
        IF IsValueCommitmentCall(SpendGadgetCallsList[i])
        THEN [SpendGadgetCallsList[i] EXCEPT !.selector = "Boolean::TRUE"]
        ELSE SpendGadgetCallsList[i]]
SpendGadgetCallsNoNullifier(c) == SelectSeq(SpendGadgetCallsList, IsNotNullifierCall)
SpendGadgetCalls(c) == SpendGadgetCallsList

\* SpendCircuit::generate_constraints: "panic" when ak does not decode (the
\* expect and unwrap of lines 95-100), "err" when the transmission key does
\* not (SynthesisError::AssignmentMissing), otherwise the constraint system
SpendSynthesize(c) ==
    LET asg == SpendAssignment(c)
        calls == SpendGadgetCalls(c)
        status == IF ~DecodeTransmissionKey(c).ok THEN "err"
                  ELSE IF ~FqFromBytes(c.ak).ok \/ ~Decompress(c.ak).ok THEN "panic"
                  ELSE "ok"
    IN [ status |-> status,
         shape |-> [allocs |-> SpendAllocs, gadgets |-> calls],
         instance |-> Instance(SpendAllocs, asg),
         satisfied |-> IsSatisfied(calls, asg) ]

(* ----------------------------- OutputCircuit --------------------------- *)
OutputAllocs ==
    << [name |-> "note_blinding", mode |-> "witness", type |-> "fq"],
       [name |-> "value_amount", mode |-> "witness", type |-> "fq"],
       [name |-> "value_asset_id", mode |-> "witness", type |-> "fq"],
       [name |-> "diversified_generator", mode |-> "witness", type |-> "element"],
       [name |-> "transmission_key_s", mode |-> "witness", type |-> "fq"],
       [name |-> "clue_key", mode |-> "witness", type |-> "fq"],
       [name |-> "v_blinding", mode |-> "witness", type |-> "bytes"],
       [name |-> "value", mode |-> "witness", type |-> "bytes"],
       [name |-> "note_commitment", mode |-> "input", type |-> "fq"],
       [name |-> "balance_commitment", mode |-> "input", type |-> "element"] >>

OutputAssignment(c) ==
    [ note_blinding |-> c.note.note_blinding,
      value_amount |-> FqFromAmount(c.note.amount),
      value_asset_id |-> c.note.asset_id,
      diversified_generator |-> c.note.diversified_generator,
      transmission_key_s |-> FqFromBytes(c.note.transmission_key).value,
      clue_key |-> c.note.clue_key % FqOrder,
      v_blinding |-> ToLeBytes(c.v_blinding),
      value |-> ToLeBytes(c.note.amount),
      note_commitment |-> c.note_commitment,
      balance_commitment |-> c.balance_commitment ]

\* the gadget invocations of generate_constraints, in order (output.rs 76-99)
OutputGadgetCallsList ==
    << [gadget |-> "diversified_basepoint_not_identity", selector |-> "Boolean::TRUE",
        args |-> <<"diversified_generator">>],
       [gadget |-> "value_commitment_integrity", selector |-> "Boolean::TRUE",
        args |-> <<"value", "value_asset_id", "v_blinding", "balance_commitment">>],
       [gadget |-> "note_commitment_integrity", selector |-> "Boolean::TRUE",
        args |-> <<"note_blinding", "value_amount", "value_asset_id",
                   "diversified_generator", "transmission_key_s", "clue_key",
                   "note_commitment">>] >>

OutputGadgetCalls == OutputGadgetCallsList

\* faulty variant: the Output relations gated on the amount like a Spend's
OutputSynthesizeGated(c) ==
    LET asg == OutputAssignment(c)
    IN [ status |-> "ok",
         shape |-> [allocs |-> OutputAllocs, gadgets |-> OutputGadgetCalls],
         instance |-> Instance(OutputAllocs, asg),
         satisfied |-> asg.value_amount = 0 \/ IsSatisfied(OutputGadgetCalls, asg) ]

\* OutputCircuit::generate_constraints: no allocation of it can fail
OutputSynthesize(c) ==
    LET asg == OutputAssignment(c)
    IN [ status |-> "ok",
         shape |-> [allocs |-> OutputAllocs, gadgets |-> OutputGadgetCalls],
         instance |-> Instance(OutputAllocs, asg),
         satisfied |-> IsSatisfied(OutputGadgetCalls, asg) ]

Synthesize(kind, c) ==
    IF kind = "spend" THEN SpendSynthesize(c) ELSE OutputSynthesize(c)

(* ------------------------------- Groth16 ------------------------------- *)
\* Groth16::circuit_specific_setup(circuit, rng): the keys depend on the shape
\* of the circuit and on the randomness tau drawn from rng
CircuitSpecificSetup(kind, c, tau) ==
    LET cs == Synthesize(kind, c)
    IN [ pk |-> [shape |-> cs.shape, tau |-> tau],
         vk |-> [shape |-> cs.shape, tau |-> tau, num_inputs |-> Len(cs.instance)] ]

\* Groth16::prove(pk, circuit, rng): a synthesis error is returned; a debug
\* build asserts that the constraint system is satisfied; otherwise a proof
Groth16Prove(pk, kind, c, debug) ==
    LET cs == Synthesize(kind, c)
    IN IF cs.status # "ok" THEN [status |-> cs.status]
       ELSE IF debug /\ ~cs.satisfied THEN [status |-> "panic"]
       ELSE [ status |-> "proof",
              tau |-> pk.tau,
              shape |-> cs.shape,
              instance |-> cs.instance,
              valid |-> cs.satisfied /\ cs.shape = pk.shape ]

\* Groth16::process_vk(vk): never fails
ProcessVk(vk) == [ok |-> TRUE, pvk |-> vk]

\* Groth16::verify_with_processed_vk(pvk, public_inputs, proof): an error when
\* the number of inputs is not the key's, otherwise the pairing check
VerifyWithProcessedVk(pvk, public_inputs, proof) ==
    IF Len(public_inputs) # pvk.num_inputs THEN "error"
    ELSE IF /\ proof.valid
            /\ proof.tau = pvk.tau
            /\ proof.shape = pvk.shape
            /\ proof.instance = public_inputs
         THEN "true"
         ELSE "false"

(* ------------------------- honest witness data ------------------------- *)
\* a spend authorization key, a nullifier key and the address derived from
\* them; a note to that address; the tree holding only that note
HonestAk == Compress(Add(Basepoint, Basepoint))
HonestNk == Basepoint
HonestNote(amount) ==
    [ note_blinding |-> 1,
      amount |-> amount,
      asset_id |-> 1,
      diversified_generator |-> Basepoint,
      transmission_key |->
          Compress(TransmissionKey(FqFromBytes(HonestAk).value, HonestNk, Basepoint)),
      clue_key |-> 1 ]
Commit(note) ==
    NoteCommit(note.note_blinding, FqFromAmount(note.amount), note.asset_id,
               note.diversified_generator,
               FqFromBytes(note.transmission_key).value, note.clue_key % FqOrder)
Witness(note) == [commitment |-> Commit(note), position |-> 0, auth_path |-> 0]
Root(proof) == MerkleRoot(proof.auth_path, proof.position, proof.commitment)

\* the arguments of SpendProof::prove for an honest spend of the note
HonestSpendArgs(amount) ==
    LET note == HonestNote(amount)
        ncp == Witness(note)
    IN [ note_commitment_proof |-> ncp,
         note |-> note,
         v_blinding |-> 1,
         spend_auth_randomizer |-> 1,
         ak |-> HonestAk,
         nk |-> HonestNk,
         anchor |-> Root(ncp),
         balance_commitment |-> ValueCommit(amount, note.asset_id, 1),
         nullifier |-> NullifierOf(ncp.commitment, HonestNk, ncp.position),
         rk |-> Compress(Rerandomize(Decompress(HonestAk).point, 1)) ]

\* the arguments of OutputProof::prove for an honest output of the note
HonestOutputArgs(amount) ==
    LET note == HonestNote(amount)
    IN [ note |-> note,
         v_blinding |-> 1,
         balance_commitment |-> ValueCommit(amount, note.asset_id, 1),
         note_commitment |-> Commit(note) ]

(* -------------------------- arbitrary arguments ------------------------ *)
\* the fields of the arguments a caller may set to something else
SpendFields ==
    { "commitment", "position", "anchor", "nullifier", "nk", "ak", "rk",
      "spend_auth_randomizer", "balance_commitment", "diversified_generator",
      "transmission_key" }
OutputFields ==
    { "note_commitment", "balance_commitment", "diversified_generator",
      "transmission_key", "v_blinding" }
SpendPublicFields == {"anchor", "balance_commitment", "nullifier", "rk"}
OutputPublicFields == {"balance_commitment", "note_commitment"}

OtherFq(v) == (v + 1) % FqOrder
OtherElement(e) == Add(e, Basepoint)
OtherKey(b) == Compress(Add(Decompress(b).point, Basepoint))
IdentityElement == Mul(0, Basepoint)
\* bytes that are a canonical field element and no encoding of a group element
NotAPoint(b) == IF b % 2 = 0 THEN b + 1 ELSE b

OtherNote(note, G) ==
    [ note EXCEPT
        !.diversified_generator =
            IF "diversified_generator" \in G THEN IdentityElement ELSE @,
        !.transmission_key =
            IF "transmission_key" \in G THEN NotAPoint(@) ELSE @ ]

\* the honest Spend arguments with the fields of G replaced
SpendArgs(amount, G) ==
    LET h == HonestSpendArgs(amount)
    IN [ note_commitment_proof |->
            [ commitment |-> IF "commitment" \in G
                             THEN OtherFq(h.note_commitment_proof.commitment)
                             ELSE h.note_commitment_proof.commitment,
              position |-> IF "position" \in G THEN 1 ELSE 0,
              auth_path |-> h.note_commitment_proof.auth_path ],
         note |-> OtherNote(h.note, G),
         v_blinding |-> h.v_blinding,
         spend_auth_randomizer |->
            IF "spend_auth_randomizer" \in G THEN 2 ELSE h.spend_auth_randomizer,
         ak |-> IF "ak" \in G THEN Compress(IdentityElement) ELSE h.ak,
         nk |-> IF "nk" \in G THEN OtherFq(h.nk) ELSE h.nk,
         anchor |-> IF "anchor" \in G THEN OtherFq(h.anchor) ELSE h.anchor,
         balance_commitment |->
            IF "balance_commitment" \in G THEN OtherElement(h.balance_commitment)
            ELSE h.balance_commitment,
         nullifier |-> IF "nullifier" \in G THEN OtherFq(h.nullifier) ELSE h.nullifier,
         rk |-> IF "rk" \in G THEN OtherKey(h.rk) ELSE h.rk ]

\* the honest Output arguments with the fields of G replaced
OutputArgs(amount, G) ==
    LET h == HonestOutputArgs(amount)
    IN [ note |-> OtherNote(h.note, G),
         v_blinding |-> IF "v_blinding" \in G THEN 2 ELSE h.v_blinding,
         balance_commitment |->
            IF "balance_commitment" \in G THEN OtherElement(h.balance_commitment)
            ELSE h.balance_commitment,
         note_commitment |->
            IF "note_commitment" \in G THEN OtherFq(h.note_commitment)
            ELSE h.note_commitment ]

(* ------------------------- test parameter setup ------------------------ *)
\* the circuit SpendCircuit::generate_test_parameters builds (spend.rs 182-221)
SpendTestCircuit ==
    LET h == HonestSpendArgs(1)
    IN [ note_commitment_proof |-> h.note_commitment_proof,
         note |-> h.note,
         v_blinding |-> 1,
         spend_auth_randomizer |-> 1,
         ak |-> h.ak,
         nk |-> h.nk,
         anchor |-> h.anchor,
         balance_commitment |-> Basepoint,
         nullifier |-> 1,
         rk |-> Decompress(h.rk).point ]

\* the circuit OutputCircuit::generate_test_parameters builds (output.rs 107-129)
OutputTestCircuit ==
    LET note == [HonestNote(1) EXCEPT !.transmission_key = 1]
    IN [ note |-> note,
         note_commitment |-> Commit(note),
         v_blinding |-> 1,
         balance_commitment |-> Basepoint ]

TestCircuit(kind) == IF kind = "spend" THEN SpendTestCircuit ELSE OutputTestCircuit

\* faulty variant: a witness value of the test circuit drawn from the rng
GenerateTestParametersRandomWitness(kind, tau) ==
    LET c == [TestCircuit(kind) EXCEPT !.v_blinding = tau]
        keys == CircuitSpecificSetup(kind, c, tau)
    IN [kind |-> kind, circuit |-> c, pk |-> keys.pk, vk |-> keys.vk]

\* generate_test_parameters(): the setup of the fixed circuit with OsRng, from
\* which tau is drawn
GenerateTestParameters(kind, tau) ==
    LET c == TestCircuit(kind)
        keys == CircuitSpecificSetup(kind, c, tau)
    IN [kind |-> kind, circuit |-> c, pk |-> keys.pk, vk |-> keys.vk]

(* ---------------------- SpendProof and OutputProof --------------------- *)
\* the circuit SpendProof::prove builds from its arguments (spend.rs 246-260)
SpendCircuitOf(args) ==
    [ note_commitment_proof |-> args.note_commitment_proof,
      note |-> args.note,
      v_blinding |-> args.v_blinding,
      spend_auth_randomizer |-> args.spend_auth_randomizer,
      ak |-> args.ak,
      nk |-> args.nk,
      anchor |-> args.anchor,
      balance_commitment |-> args.balance_commitment,
      nullifier |-> args.nullifier,
      rk |-> Decompress(args.rk).point ]

\* SpendProof::prove
SpendProve(pk, args, debug) ==
    IF ~Decompress(args.rk).ok THEN [status |-> "panic"]
    ELSE Groth16Prove(pk, "spend", SpendCircuitOf(args), debug)

\* the circuit OutputProof::prove builds from its arguments (output.rs 148-153)
OutputCircuitOf(args) ==
    [ note |-> args.note,
      note_commitment |-> args.note_commitment,
      v_blinding |-> args.v_blinding,
      balance_commitment |-> args.balance_commitment ]

\* OutputProof::prove
OutputProve(pk, args, debug) ==
    Groth16Prove(pk, "output", OutputCircuitOf(args), debug)

CircuitOf(kind, args) ==
    IF kind = "spend" THEN SpendCircuitOf(args) ELSE OutputCircuitOf(args)

\* faulty variants of the public input vectors
SpendPublicInputsRawKey(anchor, balance_commitment, nullifier, rk) ==
    FqToFieldElements(anchor)
        \o ElementToFieldElements(balance_commitment)
        \o FqToFieldElements(nullifier)
        \o ElementToFieldElements(rk)
OutputPublicInputsAsDocumented(balance_commitment, note_commitment) ==
    ElementToFieldElements(balance_commitment) \o FqToFieldElements(note_commitment)

\* the public input vector SpendProof::verify builds (spend.rs 275-282)
SpendPublicInputs(anchor, balance_commitment, nullifier, rk) ==
    FqToFieldElements(anchor)
        \o ElementToFieldElements(balance_commitment)
        \o FqToFieldElements(nullifier)
        \o ElementToFieldElements(Decompress(rk).point)

\* the public input vector OutputProof::verify builds (output.rs 170-172)
OutputPublicInputs(balance_commitment, note_commitment) ==
    FqToFieldElements(note_commitment) \o ElementToFieldElements(balance_commitment)

\* faulty variant: the result of the check ignored
VerifyResultIgnoringCheck(check) ==
    IF check = "error" THEN "error" ELSE "ok"

\* proof_result.then_some(()).ok_or_else(..), after the ? on the check's error
VerifyResult(check) ==
    CASE check = "error" -> "error"
      [] check = "true" -> "ok"
      [] check = "false" -> "proof did not verify"

\* verify, from the public input vector on: the check made and the result
VerifyWith(proof, vk, public_inputs) ==
    LET processed == ProcessVk(vk)
    IN IF ~processed.ok THEN [check |-> "none", result |-> "error"]
       ELSE LET check == VerifyWithProcessedVk(processed.pvk, public_inputs, proof)
            IN [check |-> check, result |-> VerifyResult(check)]

\* SpendProof::verify
SpendVerify(proof, vk, pub) ==
    IF ~Decompress(pub.rk).ok THEN [check |-> "none", result |-> "panic"]
    ELSE VerifyWith(proof, vk,
            SpendPublicInputs(pub.anchor, pub.balance_commitment, pub.nullifier, pub.rk))

\* OutputProof::verify
OutputVerify(proof, vk, pub) ==
    VerifyWith(proof, vk, OutputPublicInputs(pub.balance_commitment, pub.note_commitment))

(* ----------------------------- state machine --------------------------- *)
VARIABLES
    pc,       \* "init", "ready" (keys generated), "proved", "verified"
    params,   \* the key pair generated for this run
    args,     \* the arguments prove was called with
    proof,    \* what prove returned: a proof, an error, or a panic
    call,     \* the last verify call: key, public values, check, result
    setups    \* the results of the calls of generate_test_parameters so far

vars == <<pc, params, args, proof, call, setups>>

None == [status |-> "none"]

Init ==
    /\ pc = "init"
    /\ params = None
    /\ args = None
    /\ proof = None
    /\ call = None
    /\ setups = << >>

\* generate_test_parameters() of one circuit
Setup(kind) ==
    /\ pc = "init"
    /\ \E tau \in 1 .. MaxTau : params' = GenerateTestParameters(kind, tau)
    /\ pc' = "ready"
    /\ UNCHANGED <<args, proof, call, setups>>

\* SpendProof::prove with the generated proving key
DoSpendProve ==
    /\ pc = "ready"
    /\ params.kind = "spend"
    /\ \E amount \in 0 .. MaxAmount, G \in SUBSET SpendFields, debug \in BOOLEAN :
          /\ args' = SpendArgs(amount, G)
          /\ proof' = SpendProve(params.pk, args', debug)
    /\ pc' = "proved"
    /\ UNCHANGED <<params, call, setups>>

\* OutputProof::prove with the generated proving key
DoOutputProve ==
    /\ pc = "ready"
    /\ params.kind = "output"
    /\ \E amount \in 0 .. MaxAmount, G \in SUBSET OutputFields, debug \in BOOLEAN :
          /\ args' = OutputArgs(amount, G)
          /\ proof' = OutputProve(params.pk, args', debug)
    /\ pc' = "proved"
    /\ UNCHANGED <<params, call, setups>>

\* every verifying key a verifier may hold
VerifyingKeys ==
    {GenerateTestParameters(kind, tau).vk : kind \in Kinds, tau \in 1 .. MaxTau}

\* the public values the proof was made for, or those with one replaced
SpendPublic(F) ==
    [    anchor |-> IF "anchor" \in F THEN OtherFq(args.anchor) ELSE args.anchor,
         balance_commitment |->
            IF "balance_commitment" \in F THEN OtherElement(args.balance_commitment)
            ELSE args.balance_commitment,
         nullifier |->
            IF "nullifier" \in F THEN OtherFq(args.nullifier) ELSE args.nullifier,
         rk |-> IF "rk" \in F THEN OtherKey(args.rk) ELSE args.rk ]
OutputPublic(F) ==
    [ balance_commitment |->
         IF "balance_commitment" \in F THEN OtherElement(args.balance_commitment)
         ELSE args.balance_commitment,
      note_commitment |->
         IF "note_commitment" \in F THEN OtherFq(args.note_commitment)
         ELSE args.note_commitment ]
AtMostOne(S) == {{}} \cup {{f} : f \in S}

\* SpendProof::verify of the proof made
DoSpendVerify ==
    /\ pc = "proved"
    /\ params.kind = "spend"
    /\ proof.status = "proof"
    /\ \E vk \in VerifyingKeys, F \in AtMostOne(SpendPublicFields) :
          LET pub == SpendPublic(F)
              r == SpendVerify(proof, vk, pub)
          IN call' = [ status |-> "called", vk |-> vk, public |-> pub,
                       check |-> r.check, result |-> r.result ]
    /\ pc' = "verified"
    /\ UNCHANGED <<params, args, proof, setups>>

\* OutputProof::verify of the proof made
DoOutputVerify ==
    /\ pc = "proved"
    /\ params.kind = "output"
    /\ proof.status = "proof"
    /\ \E vk \in VerifyingKeys, F \in AtMostOne(OutputPublicFields) :
          LET pub == OutputPublic(F)
              r == OutputVerify(proof, vk, pub)
          IN call' = [ status |-> "called", vk |-> vk, public |-> pub,
                       check |-> r.check, result |-> r.result ]
    /\ pc' = "verified"
    /\ UNCHANGED <<params, args, proof, setups>>

Next ==
    \/ \E kind \in Kinds : Setup(kind)
    \/ DoSpendProve
    \/ DoOutputProve
    \/ DoSpendVerify
    \/ DoOutputVerify

Spec == Init /\ [][Next]_vars

\* repeated calls of generate_test_parameters(), each result kept
SetupAgain(kind) ==
    /\ Len(setups) < MaxSetups
    /\ \E tau \in 1 .. MaxTau :
          setups' = Append(setups, GenerateTestParameters(kind, tau))
    /\ UNCHANGED <<pc, params, args, proof, call>>

NextSetup == \E kind \in Kinds : SetupAgain(kind)

SpecSetup == Init /\ [][NextSetup]_vars

(* ------------------ the relations, on the arguments -------------------- *)
\* the eight relations of a Spend and the three of an Output, stated on the
\* arguments of prove
NoteCommitmentIntegrity(a) == a.note_commitment_proof.commitment = Commit(a.note)
MerklePathVerifies(a) == a.anchor = Root(a.note_commitment_proof)
RkIntegrity(a) ==
    a.rk = Compress(Rerandomize(Decompress(a.ak).point, a.spend_auth_randomizer))
DiversifiedAddressIntegrity(a) ==
    /\ Decompress(a.note.transmission_key).ok
    /\ Decompress(a.note.transmission_key).point =
          TransmissionKey(FqFromBytes(a.ak).value, a.nk, a.note.diversified_generator)
DiversifiedBasepointNotIdentity(a) == a.note.diversified_generator # IdentityElement
AkNotIdentity(a) == Decompress(a.ak).point # IdentityElement
ValueCommitmentIntegrity(a) ==
    a.balance_commitment = ValueCommit(a.note.amount, a.note.asset_id, a.v_blinding)
NullifierIntegrity(a) ==
    a.nullifier = NullifierOf(a.note_commitment_proof.commitment, a.nk,
                              a.note_commitment_proof.position)
OutputNoteCommitmentIntegrity(a) == a.note_commitment = Commit(a.note)

SpendRelationsHold(a) ==
    /\ NoteCommitmentIntegrity(a)
    /\ MerklePathVerifies(a)
    /\ RkIntegrity(a)
    /\ DiversifiedAddressIntegrity(a)
    /\ DiversifiedBasepointNotIdentity(a)
    /\ AkNotIdentity(a)
    /\ ValueCommitmentIntegrity(a)
    /\ NullifierIntegrity(a)
OutputRelationsHold(a) ==
    /\ DiversifiedBasepointNotIdentity(a)
    /\ ValueCommitmentIntegrity(a)
    /\ OutputNoteCommitmentIntegrity(a)

IsSpend == pc # "init" /\ params.kind = "spend"
IsOutput == pc # "init" /\ params.kind = "output"
Proved == pc \in {"proved", "verified"}
Verified == pc = "verified"
HasProof == Proved /\ proof.status = "proof"
PublicOf(a) ==
    IF params.kind = "spend"
    THEN [ anchor |-> a.anchor, balance_commitment |-> a.balance_commitment,
           nullifier |-> a.nullifier, rk |-> a.rk ]
    ELSE [ balance_commitment |-> a.balance_commitment,
           note_commitment |-> a.note_commitment ]
\* verify was called with the key of the proving key and the prover's values
VerifiedAsProved == Verified /\ call.vk = params.vk /\ call.public = PublicOf(args)
InputNames(allocs) ==
    LET inputs == SelectSeq(allocs, IsInput)
    IN [i \in 1 .. Len(inputs) |-> inputs[i].name]

Completeness ==
    (Proved /\ IF params.kind = "spend" THEN SpendRelationsHold(args)
               ELSE OutputRelationsHold(args))
    => /\ proof.status = "proof"
       /\ VerifiedAsProved => call.result = "ok"
CompletenessWitness ==
    /\ IsSpend /\ VerifiedAsProved
    /\ args.note.amount # 0
    /\ SpendRelationsHold(args)
    /\ call.result = "ok"

\* C3: dummy-spend vacuity.  A Spend of amount 0 whose note is well encoded
\* yields a proof that verifies, whatever the Merkle witness, the nullifier
\* and the key fields are.
DummySpendVacuity ==
    (IsSpend /\ Proved /\ args.note.amount = 0
        /\ Decompress(args.note.transmission_key).ok)
    => /\ proof.status = "proof"
       /\ VerifiedAsProved => call.result = "ok"
DummySpendVacuityWitness ==
    /\ IsSpend /\ VerifiedAsProved
    /\ args.note.amount = 0
    /\ ~NoteCommitmentIntegrity(args)
    /\ ~MerklePathVerifies(args)
    /\ ~RkIntegrity(args)
    /\ ~DiversifiedAddressIntegrity(args)
    /\ ~AkNotIdentity(args)
    /\ ~NullifierIntegrity(args)
    /\ call.result = "ok"

\* C4: non-dummy enforcement.  For a Spend of a non-zero amount that violates
\* one of the eight relations the constraint system is not satisfied, and no
\* verify of what prove returned succeeds.
NonDummyEnforcement ==
    (IsSpend /\ Proved /\ args.note.amount # 0 /\ ~SpendRelationsHold(args))
    => /\ SpendSynthesize(SpendCircuitOf(args)).status = "ok"
            => ~SpendSynthesize(SpendCircuitOf(args)).satisfied
       /\ proof.status = "proof" => ~proof.valid
       /\ Verified => call.result # "ok"
NonDummyEnforcementWitness ==
    /\ IsSpend /\ VerifiedAsProved
    /\ args.note.amount # 0
    /\ NoteCommitmentIntegrity(args)
    /\ MerklePathVerifies(args)
    /\ RkIntegrity(args)
    /\ DiversifiedAddressIntegrity(args)
    /\ DiversifiedBasepointNotIdentity(args)
    /\ AkNotIdentity(args)
    /\ ValueCommitmentIntegrity(args)
    /\ ~NullifierIntegrity(args)
    /\ call.result = "proof did not verify"

\* C5: the three relations of an Output are enforced for every note, one of
\* amount 0 included: when one is violated the constraint system is not
\* satisfied and no verify succeeds.
OutputUnconditional ==
    (IsOutput /\ Proved /\ ~OutputRelationsHold(args))
    => /\ ~OutputSynthesize(OutputCircuitOf(args)).satisfied
       /\ proof.status = "proof" => ~proof.valid
       /\ Verified => call.result # "ok"
OutputUnconditionalWitness ==
    /\ IsOutput /\ VerifiedAsProved
    /\ args.note.amount = 0
    /\ ~ValueCommitmentIntegrity(args)
    /\ DiversifiedBasepointNotIdentity(args)
    /\ OutputNoteCommitmentIntegrity(args)
    /\ call.result = "proof did not verify"

\* C6: the constraint shape does not depend on the witness.  Every Spend
\* circuit synthesized, dummy or genuine, has the allocations and the gadget
\* invocations of the circuit the key was set up for (a genuine spend), each
\* gadget takes the selector is_not_dummy, and the amount decides only the
\* value of that selector.
ShapeIndependentOfWitness ==
    (IsSpend /\ Proved /\ SpendSynthesize(SpendCircuitOf(args)).status = "ok")
    => LET c == SpendCircuitOf(args)
           cs == SpendSynthesize(c)
       IN /\ cs.shape = params.pk.shape
          /\ Len(cs.shape.gadgets) = Len(SpendGadgetCallsList)
          /\ \A i \in 1 .. Len(cs.shape.gadgets) :
                /\ cs.shape.gadgets[i].selector = "is_not_dummy"
                /\ Enforced(cs.shape.gadgets[i], SpendAssignment(c))
                      = (args.note.amount # 0)
ShapeIndependentOfWitnessWitness ==
    /\ IsSpend /\ VerifiedAsProved
    /\ args.note.amount = 0
    /\ params.circuit.note.amount # 0
    /\ proof.shape = params.pk.shape
    /\ call.result = "ok"

\* C7: verify succeeds exactly when the check returned true; a check that
\* returned false gives "proof did not verify", an error of the check is the
\* result, and no proof made from an unsatisfied system is accepted.
VerifyFollowsCheck ==
    Verified =>
       /\ call.result = "ok" <=> call.check = "true"
       /\ call.check = "false" => call.result = "proof did not verify"
       /\ call.check = "error" => call.result = "error"
       /\ call.result = "ok" => proof.valid
VerifyFollowsCheckWitness ==
    /\ Verified
    /\ call.check = "false"
    /\ call.result = "proof did not verify"
    /\ call.vk = params.vk

SetupDeterministic ==
    \A i, j \in 1 .. Len(setups) :
        setups[i].kind = setups[j].kind
        => setups[i].pk = setups[j].pk /\ setups[i].vk = setups[j].vk

\* C9 amended: two calls of generate_test_parameters for the same circuit set
\* up the same fixed circuit (blinding 1, randomizer 1) and so keys of the
\* same shape, each pair matched; the keys are equal only when the randomness
\* drawn from OsRng is.
SetupFixedCircuit ==
    \A i, j \in 1 .. Len(setups) :
        setups[i].kind = setups[j].kind
        => /\ setups[i].circuit = setups[j].circuit
           /\ setups[i].circuit.v_blinding = 1
           /\ setups[i].kind = "spend" => setups[i].circuit.spend_auth_randomizer = 1
           /\ setups[i].pk.shape = setups[j].pk.shape
           /\ setups[i].vk.shape = setups[i].pk.shape
           /\ setups[i].vk.tau = setups[i].pk.tau
           /\ (setups[i].pk = setups[j].pk) <=> (setups[i].pk.tau = setups[j].pk.tau)
SetupFixedCircuitWitness ==
    \E i, j \in 1 .. Len(setups) :
        /\ setups[i].kind = "spend" /\ setups[j].kind = "spend"
        /\ setups[i].circuit = setups[j].circuit
        /\ setups[i].pk # setups[j].pk

\* C10: in a Spend of amount 0 the value commitment relation is gated like
\* the others, so the proof verifies for a balance commitment that is not
\* the commitment to the note's value (and for any anchor, nullifier and rk).
DummyBalanceUnbound ==
    (IsSpend /\ HasProof /\ args.note.amount = 0 /\ ~ValueCommitmentIntegrity(args))
    => LET c == SpendCircuitOf(args)
           calls == SelectSeq(SpendGadgetCalls(c), IsValueCommitmentCall)
       IN /\ Len(calls) = 1
          /\ ~Enforced(calls[1], SpendAssignment(c))
          /\ proof.valid
          /\ VerifiedAsProved => call.result = "ok"
DummyBalanceUnboundWitness ==
    /\ IsSpend /\ VerifiedAsProved
    /\ args.note.amount = 0
    /\ args.balance_commitment # ValueCommit(0, args.note.asset_id, args.v_blinding)
    /\ ~MerklePathVerifies(args)
    /\ ~NullifierIntegrity(args)
    /\ ~RkIntegrity(args)
    /\ call.result = "ok"

====
